---------------------------- MODULE Spec2Model ----------------------------
(***************************************************************************)
(* A model of the embree4-rs wrapper: Device, SphereGeometry, Scene,       *)
(* CommittedScene and the three callback scope guards, together with the   *)
(* part of the native library's state the wrapper acts on (handles, the    *)
(* per-device error state, the three single-slot callback registrations).  *)
(*                                                                         *)
(* Every wrapper operation is one action.  The native calls it makes are   *)
(* applied in source order inside the action and written to last.calls.    *)
(*                                                                         *)
(* The native library is the environment, taken at its documented          *)
(* contract.  Whether a native call fails is an input of the action.  A    *)
(* call that fails records an error code in the device ("On failure an     *)
(* error code is set that can be queried using rtcGetDeviceError"); a call *)
(* that returns a handle or a pointer returns null exactly when it fails.  *)
(* The calls that release a handle or set a callback slot act on the       *)
(* handle they are given.  The device keeps the first recorded error until *)
(* it is polled; rtcGetDeviceError returns it and clears it.  The error     *)
(* code is kept per thread and device: deviceError is the main thread's,   *)
(* threadError the other threads'.                                         *)
(*                                                                         *)
(* The order of operations is restricted only by what the types allow:     *)
(* an object that holds `&'a Device` keeps the Device from being dropped   *)
(* or mutably borrowed; an object without such a field does not.           *)
(***************************************************************************)
EXTENDS Integers, Sequences, FiniteSets, TLC

\* ------------------------------------------------------------------ bounds
MaxHandles   == 4      \* native handles ever created
MaxLifecycleHandles == 3 \* native handles ever created under Spec and SpecOptions
MaxLifecycleAttach == 1  \* geometries attached over all scenes under Spec
MaxClosures  == 2      \* closures ever registered
MaxCommitted == 2      \* live CommittedScene objects per scene handle
MaxAttach    == 2      \* geometries attached over all scenes
MaxCallbackHandles == 2 \* native handles ever created under SpecCallbacks
MaxWorkers   == 1      \* threads besides the main thread
MxcsrWidth   == 16     \* bits of MXCSR that are not reserved

\* -------------------------------------------------------- program constants
\* embree4_sys::RTC_INVALID_GEOMETRY_ID is u32::MAX, the 32-bit pattern of -1.
RTC_INVALID_GEOMETRY_ID == -1

NONE     == "NONE"                                  \* RTCError::NONE
ErrCodes == {"INVALID_ARGUMENT"}                    \* one of the other RTCError values
Codes    == {NONE} \cup ErrCodes

NULL         == 0
Handles      == 1..MaxHandles
GeomIds      == 0..(MaxAttach - 1)
Configs      == {"none", "valid", "invalid"}        \* None, Some("verbose=0"), Some("verbose=bruh")
\* What lies in memory right after the bytes of a `&str`: a zero byte or not.
AfterStr     == {"NUL", "other"}
DefaultBuildQuality == "DEFAULT"
DefaultFlags        == "DEFAULT"
BuildQualities == {DefaultBuildQuality, "HIGH"}
SceneFlags     == {DefaultFlags, "ROBUST"}

\* The main thread is thread 0.
Threads      == 0..MaxWorkers
Workers      == 1..MaxWorkers

\* `this.old | 0x8040`: the "Flush to Zero" (bit 15) and "Denormals are Zero"
\* (bit 6) flags.
FTZ_DAZ      == 32832
\* The values the register is given by the code around the guard.
MxcsrValues  == {0, 64, 128, 8064, 24448, 32768, 32832, 40896, 65535}

VARIABLES
    \* native library
    nextHandle,               \* the next handle the native library hands out
    kind,                     \* handle -> "free" | "device" | "scene" | "geometry"
    parent,                   \* scene or geometry handle -> the device handle it was created on
    released,                 \* handles that were passed to rtcRelease*
    deviceError,              \* device handle -> the error code rtcGetDeviceError would return
    errorFunction,            \* device handle -> context pointer of the error callback, 0 = none
    memoryMonitorFunction,    \* device handle -> context pointer of the memory monitor, 0 = none
    progressMonitorFunction,  \* scene handle -> context pointer of the progress monitor, 0 = none
    attached,                 \* set of [scene, id, geom, returned]: rtcAttachGeometry's
                              \* registrations, and whether attach_geometry returned the id
    \* wrapper objects
    devices,                  \* handle field of every live Device
    spheres,                  \* handle field of every live SphereGeometry
    scenes,                   \* [device, handle] of every live Scene
    cscenes,                  \* scene handle -> number of live CommittedScene holding it
    scopes,                   \* [kind, handle, closure] of every live callback scope guard
    \* closures
    nextClosure,              \* the next closure passed to a register_* call
    droppedClosures,          \* closures whose storage has been dropped
    \* history
    committedOk,              \* scene handles for which commit returned Ok
    scopeDropped,             \* closures whose scope guard has been dropped
    last,                     \* the last operation: what it called and what it returned
    \* threads
    pc,                       \* thread -> where it is in a query of a CommittedScene
    threadError,              \* worker thread -> device handle -> its error code
    inflight,                 \* thread -> the query it is executing
    \* the floating-point control register of the thread that uses Mxcsr
    mxcsr                     \* reg: the register; old: the field of the live Mxcsr, if any;
                              \* op: the last step; v: the register when setup was called;
                              \* between: the register was written while the Mxcsr lived

nativeVars  == <<nextHandle, kind, parent, released, attached>>
slotVars    == <<errorFunction, memoryMonitorFunction, progressMonitorFunction>>
wrapperVars == <<devices, spheres, scenes, cscenes>>
closureVars == <<nextClosure, droppedClosures>>
threadVars  == <<pc, threadError, inflight>>
vars == <<nextHandle, kind, parent, released, deviceError, errorFunction,
          memoryMonitorFunction, progressMonitorFunction, attached, devices,
          spheres, scenes, cscenes, scopes, nextClosure, droppedClosures,
          committedOk, scopeDropped, last, pc, threadError, inflight, mxcsr>>

\* ------------------------------------------------------- the native library

\* The device keeps the first error recorded until it is polled.
rtcSetError(err, e) == IF err = NONE THEN e ELSE err

\* One entry of last.calls: the native function, its handle argument, what it
\* returned, the error it recorded (for rtcGetDeviceError: the code it returned)
\* and whether the handle had already been released.
Call(fn, h, ret, code) ==
    [fn |-> fn, h |-> h, ret |-> ret, code |-> code, rel |-> h \in released]

\* Closures the native library invokes through the device's error callback
\* when a call records error e.
ErrInv(d, e) ==
    IF e # NONE /\ errorFunction[d] # 0 THEN {errorFunction[d]} ELSE {}

\* Closures invoked through the memory monitor by a call that allocates or frees.
MemInv(d) ==
    IF memoryMonitorFunction[d] # 0 THEN {memoryMonitorFunction[d]} ELSE {}

\* Closures invoked through the progress monitor by rtcCommitScene.
ProgInv(s) ==
    IF progressMonitorFunction[s] # 0 THEN {progressMonitorFunction[s]} ELSE {}

\* ------------------------------------------------------------------ lib.rs

\* fn device_error_raw: Some(err) unless err is NONE (None is NONE here).
device_error_raw(err) == IF err # NONE THEN err ELSE NONE

\* fn device_error_or: Err(error) when the poll returns Some, else Ok(ok_value).
device_error_or(err, ok_value) ==
    IF device_error_raw(err) # NONE
    THEN [tag |-> "Err", code |-> device_error_raw(err), value |-> NULL]
    ELSE [tag |-> "Ok", code |-> NONE, value |-> ok_value]

\* The record kept of an operation.
Op(op, h, r, stale, calls, invoked) ==
    [op |-> op, h |-> h, result |-> r.tag, code |-> r.code, value |-> r.value,
     stale |-> stale, calls |-> calls, invoked |-> invoked]

Unit == [tag |-> "Unit", code |-> NONE, value |-> NULL]

\* The inflight entry of a thread that is not in a query.
NoQuery == [op |-> "none", h |-> NULL, ret |-> 0, e |-> NONE, stale |-> FALSE, running |-> 0]

\* a | b on MxcsrWidth-bit values, bit by bit from bit i up.
RECURSIVE BitOrFrom(_, _, _)
BitOrFrom(a, b, i) ==
    IF i = MxcsrWidth THEN 0
    ELSE (IF a % 2 = 1 \/ b % 2 = 1 THEN 1 ELSE 0) + 2 * BitOrFrom(a \div 2, b \div 2, i + 1)

BitOr(a, b) == BitOrFrom(a, b, 0)

Init ==
    /\ nextHandle = 1
    /\ kind = [h \in Handles |-> "free"]
    /\ parent = [h \in Handles |-> NULL]
    /\ released = {}
    /\ deviceError = [h \in Handles |-> NONE]
    /\ errorFunction = [h \in Handles |-> 0]
    /\ memoryMonitorFunction = [h \in Handles |-> 0]
    /\ progressMonitorFunction = [h \in Handles |-> 0]
    /\ attached = {}
    /\ devices = {}
    /\ spheres = {}
    /\ scenes = {}
    /\ cscenes = [h \in Handles |-> 0]
    /\ scopes = {}
    /\ nextClosure = 1
    /\ droppedClosures = {}
    /\ committedOk = {}
    /\ scopeDropped = {}
    /\ last = Op("init", NULL, Unit, FALSE, <<>>, {})
    /\ pc = [t \in Threads |-> "idle"]
    /\ threadError = [t \in Workers |-> [h \in Handles |-> NONE]]
    /\ inflight = [t \in Threads |-> NoQuery]
    /\ mxcsr = [reg |-> 8064, old |-> <<>>, op |-> "init", v |-> 8064,   \* 0x1F80, as after reset
                between |-> FALSE]

\* Everything but mxcsr.
allButMxcsr == <<nativeVars, deviceError, slotVars, wrapperVars, scopes, closureVars,
                 committedOk, scopeDropped, last, threadVars>>

\* A setup that loads the register with what it stored.
MxcsrNew_Unchanged(old) == old

\* `let new = this.old | 0x8040;`
MxcsrNew(old) == BitOr(old, FTZ_DAZ)

\* Mxcsr::setup (target x86_64 with sse): stmxcsr into this.old, ldmxcsr of new.
MxcsrSetup ==
    /\ mxcsr.old = <<>>
    /\ mxcsr' = [reg |-> MxcsrNew(mxcsr.reg), old |-> <<mxcsr.reg>>, op |-> "setup",
                 v |-> mxcsr.reg, between |-> FALSE]
    /\ UNCHANGED allButMxcsr

\* impl Drop for Mxcsr: ldmxcsr of self.old.
MxcsrDrop ==
    /\ mxcsr.old # <<>>
    /\ mxcsr' = [mxcsr EXCEPT !.reg = mxcsr.old[1], !.old = <<>>, !.op = "drop"]
    /\ UNCHANGED allButMxcsr

\* Code of the same thread loads the register, before setup or while the
\* Mxcsr lives.
MxcsrWrite(v) ==
    /\ mxcsr' = [mxcsr EXCEPT !.reg = v, !.op = "write",
                              !.between = (mxcsr.old # <<>>)]
    /\ UNCHANGED allButMxcsr

\* --------------------------------------------------------------- device.rs

\* rtcNewDevice(config): null for a configuration the library rejects.  For
\* None the argument is null_mut().  For Some(config) it is the address of
\* config.as_bytes(): the library reads a C string from there, that is the
\* bytes of the `&str` and whatever follows them up to the first zero byte, so
\* what it parses after a valid configuration is the configuration only if a
\* zero byte happens to follow it.
rtcNewDevice(config, after) ==
    IF config = "invalid" \/ (config = "valid" /\ after # "NUL") THEN NULL ELSE nextHandle

\* Device::try_new.  e is the global error a failed rtcNewDevice leaves.
DeviceTryNew(config, after, e) ==
    /\ nextHandle <= MaxHandles
    /\ LET handle == rtcNewDevice(config, after) IN
       IF handle = NULL
       THEN /\ last' = Op("Device::try_new", NULL,
                          [tag |-> "Err", code |-> device_error_raw(e), value |-> NULL],
                          FALSE,
                          <<Call("rtcNewDevice", NULL, NULL, e),
                            Call("rtcGetDeviceError", NULL, NULL, e)>>, {})
            /\ UNCHANGED <<nextHandle, kind, devices>>
       ELSE /\ nextHandle' = nextHandle + 1
            /\ kind' = [kind EXCEPT ![handle] = "device"]
            /\ devices' = devices \cup {handle}
            /\ last' = Op("Device::try_new", handle,
                          [tag |-> "Ok", code |-> NONE, value |-> handle], FALSE,
                          <<Call("rtcNewDevice", NULL, handle, NONE)>>, {})
    /\ UNCHANGED <<parent, released, deviceError, slotVars, attached, spheres,
                   scenes, cscenes, scopes, closureVars, committedOk, scopeDropped>>
    /\ UNCHANGED <<threadVars, mxcsr>>

\* Device::error
DeviceError(d) ==
    /\ d \in devices
    /\ deviceError' = [deviceError EXCEPT ![d] = NONE]
    /\ last' = Op("Device::error", d,
                  [tag |-> IF device_error_raw(deviceError[d]) # NONE THEN "Some" ELSE "None",
                   code |-> device_error_raw(deviceError[d]), value |-> NULL],
                  deviceError[d] # NONE,
                  <<Call("rtcGetDeviceError", d, NULL, deviceError[d])>>, {})
    /\ UNCHANGED <<nativeVars, slotVars, wrapperVars, scopes, closureVars,
                   committedOk, scopeDropped>>
    /\ UNCHANGED <<threadVars, mxcsr>>


\* No live object holds a `&'a Device` to d (struct Scene, struct CommittedScene).
Unborrowed(d) ==
    /\ \A s \in scenes : s.device # d
    /\ \A h \in Handles : cscenes[h] > 0 => parent[h] # d

\* Device::register_error_callback.  `callback` is a parameter of the function:
\* the context pointer handed to the native library is its address, and it is
\* dropped when the function returns.
RegisterErrorCallback(d, e) ==
    /\ d \in devices
    /\ nextClosure <= MaxClosures
    /\ LET callback == nextClosure IN
       /\ errorFunction' = [errorFunction EXCEPT ![d] = callback]
       /\ deviceError' = [deviceError EXCEPT ![d] = rtcSetError(@, e)]
       /\ scopes' = scopes \cup {[kind |-> "error", handle |-> d, closure |-> callback]}
       /\ nextClosure' = nextClosure + 1
       /\ droppedClosures' = droppedClosures \cup {callback}
       /\ last' = Op("register_error_callback", d, Unit, FALSE,
                     <<Call("rtcSetDeviceErrorFunction", d, callback, e)>>,
                     IF e # NONE THEN {callback} ELSE {})
    /\ UNCHANGED <<nativeVars, memoryMonitorFunction, progressMonitorFunction,
                   wrapperVars, committedOk, scopeDropped>>
    /\ UNCHANGED <<threadVars, mxcsr>>

\* Device::register_device_memory_monitor_callback
RegisterMemoryMonitorCallback(d, e) ==
    /\ d \in devices
    /\ nextClosure <= MaxClosures
    /\ LET callback == nextClosure IN
       /\ memoryMonitorFunction' = [memoryMonitorFunction EXCEPT ![d] = callback]
       /\ deviceError' = [deviceError EXCEPT ![d] = rtcSetError(@, e)]
       /\ scopes' = scopes \cup {[kind |-> "memory", handle |-> d, closure |-> callback]}
       /\ nextClosure' = nextClosure + 1
       /\ droppedClosures' = droppedClosures \cup {callback}
       /\ last' = Op("register_device_memory_monitor_callback", d, Unit, FALSE,
                     <<Call("rtcSetDeviceMemoryMonitorFunction", d, callback, e)>>,
                     ErrInv(d, e))
    /\ UNCHANGED <<nativeVars, errorFunction, progressMonitorFunction,
                   wrapperVars, committedOk, scopeDropped>>
    /\ UNCHANGED <<threadVars, mxcsr>>

\* Device::remove_error_callback (&mut self): the native call it makes is
\* rtcSetDeviceMemoryMonitorFunction(self.handle, None, null_mut()).
RemoveErrorCallback(d, e) ==
    /\ d \in devices
    /\ Unborrowed(d)
    /\ memoryMonitorFunction' = [memoryMonitorFunction EXCEPT ![d] = 0]
    /\ deviceError' = [deviceError EXCEPT ![d] = rtcSetError(@, e)]
    /\ last' = Op("remove_error_callback", d, Unit, FALSE,
                  <<Call("rtcSetDeviceMemoryMonitorFunction", d, 0, e)>>, ErrInv(d, e))
    /\ UNCHANGED <<nativeVars, errorFunction, progressMonitorFunction, wrapperVars,
                   scopes, closureVars, committedOk, scopeDropped>>
    /\ UNCHANGED <<threadVars, mxcsr>>

\* Device::remove_memory_monitor_callback (&mut self)
RemoveMemoryMonitorCallback(d, e) ==
    /\ d \in devices
    /\ Unborrowed(d)
    /\ memoryMonitorFunction' = [memoryMonitorFunction EXCEPT ![d] = 0]
    /\ deviceError' = [deviceError EXCEPT ![d] = rtcSetError(@, e)]
    /\ last' = Op("remove_memory_monitor_callback", d, Unit, FALSE,
                  <<Call("rtcSetDeviceMemoryMonitorFunction", d, 0, e)>>, ErrInv(d, e))
    /\ UNCHANGED <<nativeVars, errorFunction, progressMonitorFunction, wrapperVars,
                   scopes, closureVars, committedOk, scopeDropped>>
    /\ UNCHANGED <<threadVars, mxcsr>>

\* impl Drop for Device: possible once nothing borrows the Device.
DropDevice(d, e) ==
    /\ d \in devices
    /\ Unborrowed(d)
    /\ devices' = devices \ {d}
    /\ released' = released \cup {d}
    /\ deviceError' = [deviceError EXCEPT ![d] = rtcSetError(@, e)]
    /\ last' = Op("drop Device", d, Unit, FALSE,
                  <<Call("rtcReleaseDevice", d, NULL, e)>>, ErrInv(d, e) \cup MemInv(d))
    /\ UNCHANGED <<nextHandle, kind, parent, attached, slotVars, spheres, scenes,
                   cscenes, scopes, closureVars, committedOk, scopeDropped>>
    /\ UNCHANGED <<threadVars, mxcsr>>

\* A drop of SceneProgressCallbackScope that makes no deregistration call.
SceneProgressCallbackScopeSlot_NoDeregister(g) == progressMonitorFunction

\* What the scope guards' drops leave in the slot: rtcSet...Function(handle, None, null_mut()).
ErrorCallBackScopeSlot(g) == [errorFunction EXCEPT ![g.handle] = 0]
MemoryMonitorCallBackScopeSlot(g) == [memoryMonitorFunction EXCEPT ![g.handle] = 0]
SceneProgressCallbackScopeSlot(g) == [progressMonitorFunction EXCEPT ![g.handle] = 0]

\* impl Drop for ErrorCallBackScope
DropErrorCallBackScope(g, e) ==
    /\ g \in scopes
    /\ g.kind = "error"
    /\ errorFunction' = ErrorCallBackScopeSlot(g)
    /\ deviceError' = [deviceError EXCEPT ![g.handle] = rtcSetError(@, e)]
    /\ scopes' = scopes \ {g}
    /\ scopeDropped' = scopeDropped \cup {g.closure}
    /\ last' = Op("drop ErrorCallBackScope", g.handle, Unit, FALSE,
                  <<Call("rtcSetDeviceErrorFunction", g.handle, 0, e)>>,
                  IF e # NONE /\ errorFunction'[g.handle] # 0
                  THEN {errorFunction'[g.handle]} ELSE {})
    /\ UNCHANGED <<nativeVars, memoryMonitorFunction, progressMonitorFunction,
                   wrapperVars, closureVars, committedOk>>
    /\ UNCHANGED <<threadVars, mxcsr>>

\* impl Drop for MemoryMonitorCallBackScope
DropMemoryMonitorCallBackScope(g, e) ==
    /\ g \in scopes
    /\ g.kind = "memory"
    /\ memoryMonitorFunction' = MemoryMonitorCallBackScopeSlot(g)
    /\ deviceError' = [deviceError EXCEPT ![g.handle] = rtcSetError(@, e)]
    /\ scopes' = scopes \ {g}
    /\ scopeDropped' = scopeDropped \cup {g.closure}
    /\ last' = Op("drop MemoryMonitorCallBackScope", g.handle, Unit, FALSE,
                  <<Call("rtcSetDeviceMemoryMonitorFunction", g.handle, 0, e)>>,
                  ErrInv(g.handle, e))
    /\ UNCHANGED <<nativeVars, errorFunction, progressMonitorFunction,
                   wrapperVars, closureVars, committedOk>>
    /\ UNCHANGED <<threadVars, mxcsr>>

\* impl Drop for SceneProgressCallbackScope
DropSceneProgressCallbackScope(g, e) ==
    /\ g \in scopes
    /\ g.kind = "progress"
    /\ progressMonitorFunction' = SceneProgressCallbackScopeSlot(g)
    /\ deviceError' = [deviceError EXCEPT ![parent[g.handle]] = rtcSetError(@, e)]
    /\ scopes' = scopes \ {g}
    /\ scopeDropped' = scopeDropped \cup {g.closure}
    /\ last' = Op("drop SceneProgressCallbackScope", g.handle, Unit, FALSE,
                  <<Call("rtcSetSceneProgressMonitorFunction", g.handle, 0, e)>>,
                  ErrInv(parent[g.handle], e))
    /\ UNCHANGED <<nativeVars, errorFunction, memoryMonitorFunction,
                   wrapperVars, closureVars, committedOk>>
    /\ UNCHANGED <<threadVars, mxcsr>>

\* ------------------------------------------------------ geometry/sphere.rs

\* SphereGeometry::try_new(device, origin, radius).  e1, e2, e3: the error
\* recorded by rtcNewGeometry, rtcSetNewGeometryBuffer and rtcCommitGeometry
\* (NONE: the call succeeds); the first two return null when they fail.  On
\* the paths that bail after rtcNewGeometry returned a geometry, nothing
\* releases it.
SphereTryNew(d, e1, e2, e3) ==
    /\ d \in devices
    /\ nextHandle <= MaxHandles
    /\ e1 # NONE => e2 = NONE                                  \* inputs of steps not reached
    /\ rtcSetError(rtcSetError(deviceError[d], e1), e2) # NONE => e3 = NONE
    /\ LET geometry == IF e1 # NONE THEN NULL ELSE nextHandle
           vertex_buf_ptr == IF e2 # NONE THEN NULL ELSE 1
           err0 == deviceError[d]
           err1 == rtcSetError(err0, e1)
           err2 == rtcSetError(err1, e2)
           c1   == Call("rtcNewGeometry", d, geometry, e1)
           c2   == Call("rtcSetNewGeometryBuffer", geometry, vertex_buf_ptr, e2)
           c3   == Call("rtcCommitGeometry", geometry, NULL, e3)
           w    == Call("copy_from_slice", geometry, NULL, NONE)
           poll(err) == Call("rtcGetDeviceError", d, NULL, err)
           bail(err) == [tag |-> "Err", code |-> device_error_raw(err), value |-> NULL]
           r2   == device_error_or(err2, NULL)
           r3   == device_error_or(e3, NULL)
           inv1 == ErrInv(d, e1) \cup MemInv(d)
           inv2 == inv1 \cup ErrInv(d, e2) \cup MemInv(d)
       IN
       /\ deviceError' = [deviceError EXCEPT ![d] = NONE]
       /\ IF geometry = NULL
          THEN /\ last' = Op("SphereGeometry::try_new", NULL, bail(err1), err0 # NONE,
                             <<c1, poll(err1)>>, inv1)
               /\ UNCHANGED <<nextHandle, kind, parent, spheres>>
          ELSE /\ nextHandle' = nextHandle + 1
               /\ kind' = [kind EXCEPT ![geometry] = "geometry"]
               /\ parent' = [parent EXCEPT ![geometry] = d]
               /\ IF vertex_buf_ptr = NULL
                  THEN /\ last' = Op("SphereGeometry::try_new", geometry, bail(err2),
                                     err0 # NONE, <<c1, c2, poll(err2)>>, inv2)
                       /\ UNCHANGED spheres
                  ELSE IF r2.tag = "Err"
                  THEN /\ last' = Op("SphereGeometry::try_new", geometry, r2,
                                     err0 # NONE, <<c1, c2, poll(err2)>>, inv2)
                       /\ UNCHANGED spheres
                  ELSE IF r3.tag = "Err"
                  THEN /\ last' = Op("SphereGeometry::try_new", geometry, r3, FALSE,
                                     <<c1, c2, poll(err2), w, c3, poll(e3)>>,
                                     inv2 \cup ErrInv(d, e3))
                       /\ UNCHANGED spheres
                  ELSE /\ last' = Op("SphereGeometry::try_new", geometry,
                                     [tag |-> "Ok", code |-> NONE, value |-> geometry],
                                     FALSE, <<c1, c2, poll(err2), w, c3, poll(e3)>>, inv2)
                       /\ spheres' = spheres \cup {geometry}
    /\ UNCHANGED <<released, attached, slotVars, devices, scenes, cscenes, scopes,
                   closureVars, committedOk, scopeDropped>>
    /\ UNCHANGED <<threadVars, mxcsr>>

\* impl Drop for SphereGeometry.  SphereGeometry has no lifetime parameter:
\* nothing ties it to the Device it was created from.
DropSphereGeometry(g, e) ==
    /\ g \in spheres
    /\ spheres' = spheres \ {g}
    /\ released' = released \cup {g}
    /\ deviceError' = [deviceError EXCEPT ![parent[g]] = rtcSetError(@, e)]
    /\ last' = Op("drop SphereGeometry", g, Unit, FALSE,
                  <<Call("rtcReleaseGeometry", g, NULL, e)>>,
                  ErrInv(parent[g], e) \cup MemInv(parent[g]))
    /\ UNCHANGED <<nextHandle, kind, parent, attached, slotVars, devices, scenes,
                   cscenes, scopes, closureVars, committedOk, scopeDropped>>
    /\ UNCHANGED <<threadVars, mxcsr>>


\* ---------------------------------------------------------------- scene.rs

\* An option is applied with every value, the default included.
OptionDiffers_Always(option, default) == TRUE

\* `options.build_quality != Default::default()`, `options.flags != Default::default()`
OptionDiffers(option, default) == option # default

\* Scene::try_new(device, options).  e0, eq, ef: the errors recorded by
\* rtcNewScene (which then returns null), rtcSetSceneBuildQuality and
\* rtcSetSceneFlags; er: by the rtcReleaseScene of `scene` when `?` returns early.
SceneTryNew(d, quality, flags, e0, eq, ef, er) ==
    /\ d \in devices
    /\ nextHandle <= MaxHandles
    /\ (e0 # NONE \/ quality = DefaultBuildQuality) => eq = NONE     \* inputs of calls not made
    /\ (e0 # NONE \/ flags = DefaultFlags) => ef = NONE
    /\ LET handle == IF e0 # NONE THEN NULL ELSE nextHandle
           err0   == deviceError[d]
           errN   == rtcSetError(err0, e0)
           applyQ == OptionDiffers(quality, DefaultBuildQuality)
           rQ     == device_error_or(rtcSetError(errN, eq), NULL)
           errQ   == IF applyQ THEN NONE ELSE errN
           applyF == OptionDiffers(flags, DefaultFlags)
           rF     == device_error_or(rtcSetError(errQ, ef), NULL)
           errF   == IF applyF THEN NONE ELSE errQ
           cN     == Call("rtcNewScene", d, handle, e0)
           cQ     == <<Call("rtcSetSceneBuildQuality", handle, NULL, eq),
                       Call("rtcGetDeviceError", d, NULL, rtcSetError(errN, eq))>>
           cF     == <<Call("rtcSetSceneFlags", handle, NULL, ef),
                       Call("rtcGetDeviceError", d, NULL, rtcSetError(errQ, ef))>>
           cR     == <<Call("rtcReleaseScene", handle, NULL, er)>>
           invN   == ErrInv(d, e0) \cup MemInv(d)
           invQ   == IF applyQ THEN ErrInv(d, eq) ELSE {}
           invF   == IF applyF THEN ErrInv(d, ef) ELSE {}
           invR   == ErrInv(d, er) \cup MemInv(d)
       IN
       IF handle = NULL
       THEN /\ deviceError' = [deviceError EXCEPT ![d] = NONE]
            /\ last' = Op("Scene::try_new", NULL,
                          [tag |-> "Err", code |-> device_error_raw(errN), value |-> NULL],
                          err0 # NONE,
                          <<cN, Call("rtcGetDeviceError", d, NULL, errN)>>, invN)
            /\ UNCHANGED <<nextHandle, kind, parent, released, scenes>>
       ELSE /\ nextHandle' = nextHandle + 1
            /\ kind' = [kind EXCEPT ![handle] = "scene"]
            /\ parent' = [parent EXCEPT ![handle] = d]
            /\ IF applyQ /\ rQ.tag = "Err"
               THEN /\ deviceError' = [deviceError EXCEPT ![d] = er]
                    /\ released' = released \cup {handle}
                    /\ last' = Op("Scene::try_new", handle, rQ, err0 # NONE,
                                  <<cN>> \o cQ \o cR, invN \cup invQ \cup invR)
                    /\ UNCHANGED scenes
               ELSE IF applyF /\ rF.tag = "Err"
               THEN /\ deviceError' = [deviceError EXCEPT ![d] = er]
                    /\ released' = released \cup {handle}
                    /\ last' = Op("Scene::try_new", handle, rF,
                                  ~applyQ /\ err0 # NONE,
                                  <<cN>> \o (IF applyQ THEN cQ ELSE <<>>) \o cF \o cR,
                                  invN \cup invQ \cup invF \cup invR)
                    /\ UNCHANGED scenes
               ELSE /\ deviceError' = [deviceError EXCEPT ![d] = errF]
                    /\ scenes' = scenes \cup {[device |-> d, handle |-> handle]}
                    /\ last' = Op("Scene::try_new", handle,
                                  [tag |-> "Ok", code |-> NONE, value |-> handle], FALSE,
                                  <<cN>> \o (IF applyQ THEN cQ ELSE <<>>)
                                         \o (IF applyF THEN cF ELSE <<>>),
                                  invN \cup invQ \cup invF)
                    /\ UNCHANGED released
    /\ UNCHANGED <<attached, slotVars, devices, spheres, cscenes, scopes,
                   closureVars, committedOk, scopeDropped>>
    /\ UNCHANGED <<threadVars, mxcsr>>

\* Scene::set_build_quality (&self)
SetBuildQuality(s, quality, e) ==
    /\ s \in scenes
    /\ LET err1 == rtcSetError(deviceError[s.device], e) IN
       /\ deviceError' = [deviceError EXCEPT ![s.device] = NONE]
       /\ last' = Op("set_build_quality", s.handle, device_error_or(err1, NULL),
                     deviceError[s.device] # NONE,
                     <<Call("rtcSetSceneBuildQuality", s.handle, NULL, e),
                       Call("rtcGetDeviceError", s.device, NULL, err1)>>,
                     ErrInv(s.device, e))
    /\ UNCHANGED <<nativeVars, slotVars, wrapperVars, scopes, closureVars,
                   committedOk, scopeDropped>>
    /\ UNCHANGED <<threadVars, mxcsr>>

\* Scene::set_flags (&self)
SetFlags(s, flags, e) ==
    /\ s \in scenes
    /\ LET err1 == rtcSetError(deviceError[s.device], e) IN
       /\ deviceError' = [deviceError EXCEPT ![s.device] = NONE]
       /\ last' = Op("set_flags", s.handle, device_error_or(err1, NULL),
                     deviceError[s.device] # NONE,
                     <<Call("rtcSetSceneFlags", s.handle, NULL, e),
                       Call("rtcGetDeviceError", s.device, NULL, err1)>>,
                     ErrInv(s.device, e))
    /\ UNCHANGED <<nativeVars, slotVars, wrapperVars, scopes, closureVars,
                   committedOk, scopeDropped>>
    /\ UNCHANGED <<threadVars, mxcsr>>

\* Scene::attach_geometry (&self, &impl Geometry).  id is the identifier the
\* native library assigns: one not in use in this scene.  A rtcAttachGeometry
\* that fails attaches nothing and returns RTC_INVALID_GEOMETRY_ID.
AttachGeometry(s, g, id, e) ==
    /\ s \in scenes
    /\ g \in spheres
    /\ Cardinality(attached) < MaxAttach
    /\ \A a \in attached : a.scene = s.handle => a.id # id
    /\ LET geom_id == IF e # NONE THEN RTC_INVALID_GEOMETRY_ID ELSE id
           err1    == rtcSetError(deviceError[s.device], e)
           r       == device_error_or(err1, geom_id)
       IN
       /\ attached' = IF e # NONE THEN attached
                      ELSE attached \cup {[scene |-> s.handle, id |-> geom_id, geom |-> g,
                                           returned |-> r.tag = "Ok"]}
       /\ deviceError' = [deviceError EXCEPT ![s.device] = NONE]
       /\ last' = Op("attach_geometry", s.handle, r,
                     deviceError[s.device] # NONE,
                     <<Call("rtcAttachGeometry", s.handle, geom_id, e),
                       Call("rtcGetDeviceError", s.device, NULL, err1)>>,
                     ErrInv(s.device, e) \cup MemInv(s.device))
    /\ UNCHANGED <<nextHandle, kind, parent, released, slotVars, wrapperVars,
                   scopes, closureVars, committedOk, scopeDropped>>
    /\ UNCHANGED <<threadVars, mxcsr>>

\* Scene::commit (&self) -> Result<CommittedScene<'a>>: the CommittedScene is
\* built from self.device and self.handle; the Scene stays with its owner.
Commit(s, e) ==
    /\ s \in scenes
    /\ cscenes[s.handle] < MaxCommitted
    /\ LET err1 == rtcSetError(deviceError[s.device], e)
           r    == device_error_or(err1, s.handle)
       IN
       /\ deviceError' = [deviceError EXCEPT ![s.device] = NONE]
       /\ cscenes' = IF r.tag = "Ok" THEN [cscenes EXCEPT ![s.handle] = @ + 1] ELSE cscenes
       /\ committedOk' = IF r.tag = "Ok" THEN committedOk \cup {s.handle} ELSE committedOk
       /\ last' = Op("commit", s.handle, r, deviceError[s.device] # NONE,
                     <<Call("rtcCommitScene", s.handle, NULL, e),
                       Call("rtcGetDeviceError", s.device, NULL, err1)>>,
                     ErrInv(s.device, e) \cup MemInv(s.device) \cup ProgInv(s.handle))
    /\ UNCHANGED <<nativeVars, slotVars, devices, spheres, scenes, scopes,
                   closureVars, scopeDropped>>
    /\ UNCHANGED <<threadVars, mxcsr>>

\* Scene::register_scene_progress_monitor_callback (&mut self).  `f` is a
\* parameter of the function, dropped when it returns.
RegisterSceneProgressMonitorCallback(s, e) ==
    /\ s \in scenes
    /\ nextClosure <= MaxClosures
    /\ LET f == nextClosure IN
       /\ progressMonitorFunction' = [progressMonitorFunction EXCEPT ![s.handle] = f]
       /\ deviceError' = [deviceError EXCEPT ![s.device] = rtcSetError(@, e)]
       /\ scopes' = scopes \cup {[kind |-> "progress", handle |-> s.handle, closure |-> f]}
       /\ nextClosure' = nextClosure + 1
       /\ droppedClosures' = droppedClosures \cup {f}
       /\ last' = Op("register_scene_progress_monitor_callback", s.handle, Unit, FALSE,
                     <<Call("rtcSetSceneProgressMonitorFunction", s.handle, f, e)>>,
                     ErrInv(s.device, e))
    /\ UNCHANGED <<nativeVars, errorFunction, memoryMonitorFunction, wrapperVars,
                   committedOk, scopeDropped>>
    /\ UNCHANGED <<threadVars, mxcsr>>

\* Scene::remove_scene_progress_monitor_callback (&mut self)
RemoveSceneProgressMonitorCallback(s, e) ==
    /\ s \in scenes
    /\ progressMonitorFunction' = [progressMonitorFunction EXCEPT ![s.handle] = 0]
    /\ deviceError' = [deviceError EXCEPT ![s.device] = rtcSetError(@, e)]
    /\ last' = Op("remove_scene_progress_monitor_callback", s.handle, Unit, FALSE,
                  <<Call("rtcSetSceneProgressMonitorFunction", s.handle, 0, e)>>,
                  ErrInv(s.device, e))
    /\ UNCHANGED <<nativeVars, errorFunction, memoryMonitorFunction, wrapperVars,
                   scopes, closureVars, committedOk, scopeDropped>>
    /\ UNCHANGED <<threadVars, mxcsr>>

\* impl Drop for Scene.  No CommittedScene borrows the Scene, so it can be
\* dropped whenever its owner likes.
DropScene(s, e) ==
    /\ s \in scenes
    /\ scenes' = scenes \ {s}
    /\ released' = released \cup {s.handle}
    /\ deviceError' = [deviceError EXCEPT ![s.device] = rtcSetError(@, e)]
    /\ last' = Op("drop Scene", s.handle, Unit, FALSE,
                  <<Call("rtcReleaseScene", s.handle, NULL, e)>>,
                  ErrInv(s.device, e) \cup MemInv(s.device))
    /\ UNCHANGED <<nextHandle, kind, parent, attached, slotVars, devices, spheres,
                   cscenes, scopes, closureVars, committedOk, scopeDropped>>
    /\ UNCHANGED <<threadVars, mxcsr>>

\* An intersect_1 that looks at the geomID before it polls the device.
intersect_1_result_SentinelFirst(err, geomID) ==
    IF geomID = RTC_INVALID_GEOMETRY_ID
    THEN [tag |-> "OkNone", code |-> NONE, value |-> NULL]
    ELSE IF device_error_raw(err) # NONE
         THEN [tag |-> "Err", code |-> device_error_raw(err), value |-> NULL]
         ELSE [tag |-> "OkSome", code |-> NONE, value |-> geomID]

\* The result of CommittedScene::intersect_1 from the error state polled after
\* rtcIntersect1 and the geomID the native call left in ray_hit.hit.
intersect_1_result(err, geomID) ==
    IF device_error_or(err, NULL).tag = "Err"
    THEN device_error_or(err, NULL)
    ELSE IF geomID # RTC_INVALID_GEOMETRY_ID
         THEN [tag |-> "OkSome", code |-> NONE, value |-> geomID]
         ELSE [tag |-> "OkNone", code |-> NONE, value |-> NULL]

\* The geomIDs rtcIntersect1 can leave in the hit: the sentinel or an id
\* attached to the scene; anything if the scene handle was already released.
HitIds(h) ==
    {RTC_INVALID_GEOMETRY_ID} \cup
    (IF h \in released THEN GeomIds ELSE {a.id : a \in {b \in attached : b.scene = h}})

\* CommittedScene::intersect_1
Intersect1(h, geomID, e) ==
    /\ cscenes[h] > 0
    /\ geomID \in HitIds(h)
    /\ LET err1 == rtcSetError(deviceError[parent[h]], e) IN
       /\ deviceError' = [deviceError EXCEPT ![parent[h]] = NONE]
       /\ last' = Op("intersect_1", h, intersect_1_result(err1, geomID),
                     deviceError[parent[h]] # NONE,
                     <<Call("rtcIntersect1", h, geomID, e),
                       Call("rtcGetDeviceError", parent[h], NULL, err1)>>,
                     ErrInv(parent[h], e))
    /\ UNCHANGED <<nativeVars, slotVars, wrapperVars, scopes, closureVars,
                   committedOk, scopeDropped>>
    /\ UNCHANGED <<threadVars, mxcsr>>

\* CommittedScene::bounds.  b: what rtcGetSceneBounds wrote (0: left as default).
Bounds(h, b, e) ==
    /\ cscenes[h] > 0
    /\ LET err1 == rtcSetError(deviceError[parent[h]], e) IN
       /\ deviceError' = [deviceError EXCEPT ![parent[h]] = NONE]
       /\ last' = Op("bounds", h, device_error_or(err1, b),
                     deviceError[parent[h]] # NONE,
                     <<Call("rtcGetSceneBounds", h, b, e),
                       Call("rtcGetDeviceError", parent[h], NULL, err1)>>,
                     ErrInv(parent[h], e))
    /\ UNCHANGED <<nativeVars, slotVars, wrapperVars, scopes, closureVars,
                   committedOk, scopeDropped>>
    /\ UNCHANGED <<threadVars, mxcsr>>

\* A CommittedScene goes out of scope.  The type has no Drop: no native call.
DropCommittedScene(h) ==
    /\ cscenes[h] > 0
    /\ cscenes' = [cscenes EXCEPT ![h] = @ - 1]
    /\ last' = Op("drop CommittedScene", h, Unit, FALSE, <<>>, {})
    /\ UNCHANGED <<nativeVars, deviceError, slotVars, devices, spheres, scenes,
                   scopes, closureVars, committedOk, scopeDropped>>
    /\ UNCHANGED <<threadVars, mxcsr>>

\* ----------------------------------------------------------------- threads
\* Device is Send and Sync and CommittedScene is Sync: threads other than the
\* one that built them call the `&self` methods of a shared Device and of a
\* shared CommittedScene.  A query is two steps of its thread, the native call
\* and the poll of the device error; the native call runs the error callback
\* on the calling thread when it records an error.

\* The error code of device d that rtcGetDeviceError returns to thread t: the
\* native library keeps one per thread and device.
Flag(t, d) == IF t = 0 THEN deviceError[d] ELSE threadError[t][d]

SetFlag(t, d, f) ==
    IF t = 0
    THEN deviceError' = [deviceError EXCEPT ![d] = f] /\ UNCHANGED threadError
    ELSE threadError' = [threadError EXCEPT ![t][d] = f] /\ UNCHANGED deviceError

Queries == {"intersect_1", "bounds"}

\* Thread t enters rtcIntersect1 / rtcGetSceneBounds of intersect_1 / bounds on
\* the CommittedScene with handle h.  ret: the geomID left in the hit, or what
\* was written to the bounds; e: the error the call records.
QueryCall(t, op, h, ret, e) ==
    /\ pc[t] = "idle"
    /\ cscenes[h] > 0
    /\ op = "intersect_1" => ret \in HitIds(h)
    /\ op = "bounds" => ret \in 0..1
    /\ LET d       == parent[h]
           running == IF e # NONE THEN errorFunction[d] ELSE 0
       IN /\ SetFlag(t, d, rtcSetError(Flag(t, d), e))
          /\ inflight' = [inflight EXCEPT ![t] =
                            [op |-> op, h |-> h, ret |-> ret, e |-> e,
                             stale |-> Flag(t, d) # NONE, running |-> running]]
          /\ pc' = [pc EXCEPT ![t] = IF running # 0 THEN "trampoline" ELSE "poll"]
    /\ UNCHANGED <<nativeVars, slotVars, wrapperVars, scopes, closureVars,
                   committedOk, scopeDropped, last, mxcsr>>

\* The closure called by the trampoline on thread t returns, and then the
\* native call.
TrampolineReturn(t) ==
    /\ pc[t] = "trampoline"
    /\ pc' = [pc EXCEPT ![t] = "poll"]
    /\ UNCHANGED <<nativeVars, deviceError, slotVars, wrapperVars, scopes, closureVars,
                   committedOk, scopeDropped, last, threadError, inflight, mxcsr>>

\* Thread t polls the device error after its native call and returns.
QueryPoll(t) ==
    /\ pc[t] = "poll"
    /\ LET q   == inflight[t]
           d   == parent[q.h]
           err == Flag(t, d)
           r   == IF q.op = "intersect_1" THEN intersect_1_result(err, q.ret)
                  ELSE device_error_or(err, q.ret)
           fn  == IF q.op = "intersect_1" THEN "rtcIntersect1" ELSE "rtcGetSceneBounds"
       IN /\ SetFlag(t, d, NONE)
          /\ last' = Op(q.op, q.h, r, q.stale,
                        <<Call(fn, q.h, q.ret, q.e),
                          Call("rtcGetDeviceError", d, NULL, err)>>,
                        IF q.running # 0 THEN {q.running} ELSE {})
    /\ pc' = [pc EXCEPT ![t] = "idle"]
    /\ inflight' = [inflight EXCEPT ![t] = NoQuery]
    /\ UNCHANGED <<nativeVars, slotVars, wrapperVars, scopes, closureVars,
                   committedOk, scopeDropped, mxcsr>>

\* A register_error_callback that waits until no thread is in the trampoline.
ThreadRegisterErrorCallback_Locked(t, d) ==
    /\ \A u \in Threads : pc[u] # "trampoline"
    /\ pc[t] = "idle"
    /\ RegisterErrorCallback(d, NONE)

\* Thread t calls register_error_callback(&self) on the shared Device.
ThreadRegisterErrorCallback(t, d) ==
    /\ pc[t] = "idle"
    /\ RegisterErrorCallback(d, NONE)

\* Thread t drops an ErrorCallBackScope.
ThreadDropErrorCallBackScope(t, g) ==
    /\ pc[t] = "idle"
    /\ DropErrorCallBackScope(g, NONE)

\* ------------------------------------------------------------ specification

\* Device, SphereGeometry, Scene and CommittedScene: creation, configuration,
\* commit, queries and drops.
Next ==
    \/ \E config \in Configs, after \in AfterStr, e \in ErrCodes :
          nextHandle <= MaxLifecycleHandles /\ DeviceTryNew(config, after, e)
    \/ \E d \in Handles : DeviceError(d)
    \/ \E d \in Handles, e \in Codes : DropDevice(d, e)
    \/ \E d \in Handles, e1, e2, e3 \in Codes :
          nextHandle <= MaxLifecycleHandles /\ SphereTryNew(d, e1, e2, e3)
    \/ \E g \in Handles, e \in Codes : DropSphereGeometry(g, e)
    \/ \E d \in Handles, quality \in BuildQualities, flags \in SceneFlags,
          e0, eq, ef, er \in Codes :
          nextHandle <= MaxLifecycleHandles /\ SceneTryNew(d, quality, flags, e0, eq, ef, er)
    \/ \E s \in scenes, quality \in BuildQualities, e \in Codes : SetBuildQuality(s, quality, e)
    \/ \E s \in scenes, flags \in SceneFlags, e \in Codes : SetFlags(s, flags, e)
    \/ \E s \in scenes, g \in Handles, id \in 0..(MaxLifecycleAttach - 1), e \in Codes :
          Cardinality(attached) < MaxLifecycleAttach /\ AttachGeometry(s, g, id, e)
    \/ \E s \in scenes, e \in Codes : Commit(s, e)
    \/ \E s \in scenes, e \in Codes : DropScene(s, e)
    \/ \E h \in Handles,
          geomID \in 0..(MaxLifecycleAttach - 1) \cup {RTC_INVALID_GEOMETRY_ID}, e \in Codes :
          Intersect1(h, geomID, e)
    \/ \E h \in Handles, b \in 0..1, e \in Codes : Bounds(h, b, e)
    \/ \E h \in Handles : DropCommittedScene(h)

Spec == Init /\ [][Next]_vars

\* Scenes created with every combination of options, reconfigured and dropped.
NextOptions ==
    \/ \E after \in AfterStr, e \in ErrCodes :
          nextHandle <= MaxLifecycleHandles /\ DeviceTryNew("none", after, e)
    \/ \E d \in Handles : DeviceError(d)
    \/ \E d \in Handles, quality \in BuildQualities, flags \in SceneFlags,
          e0, eq, ef, er \in Codes :
          nextHandle <= MaxLifecycleHandles /\ SceneTryNew(d, quality, flags, e0, eq, ef, er)
    \/ \E s \in scenes, quality \in BuildQualities, e \in Codes : SetBuildQuality(s, quality, e)
    \/ \E s \in scenes, flags \in SceneFlags, e \in Codes : SetFlags(s, flags, e)
    \/ \E s \in scenes, e \in Codes : DropScene(s, e)

SpecOptions == Init /\ [][NextOptions]_vars

\* The callback registrations, with the operations that create and destroy the
\* handles they are made on and the native calls that run the callbacks.  Here
\* the rtcSet...Function and rtcRelease... calls succeed (Spec has them fail);
\* rtcNewScene and rtcCommitScene may fail, which runs the error callback.
NextCallbacks ==
    \/ \E config \in Configs, after \in AfterStr, e \in ErrCodes :
          nextHandle <= MaxCallbackHandles /\ DeviceTryNew(config, after, e)
    \/ \E d \in Handles : DropDevice(d, NONE)
    \/ \E d \in Handles : RegisterErrorCallback(d, NONE)
    \/ \E d \in Handles : RegisterMemoryMonitorCallback(d, NONE)
    \/ \E d \in Handles : RemoveErrorCallback(d, NONE)
    \/ \E d \in Handles : RemoveMemoryMonitorCallback(d, NONE)
    \/ \E g \in scopes : DropErrorCallBackScope(g, NONE)
    \/ \E g \in scopes : DropMemoryMonitorCallBackScope(g, NONE)
    \/ \E g \in scopes : DropSceneProgressCallbackScope(g, NONE)
    \/ \E d \in Handles, e0 \in Codes :
          /\ nextHandle <= MaxCallbackHandles
          /\ SceneTryNew(d, DefaultBuildQuality, DefaultFlags, e0, NONE, NONE, NONE)
    \/ \E s \in scenes, e \in Codes : Commit(s, e)
    \/ \E s \in scenes : RegisterSceneProgressMonitorCallback(s, NONE)
    \/ \E s \in scenes : RemoveSceneProgressMonitorCallback(s, NONE)
    \/ \E s \in scenes : DropScene(s, NONE)
    \/ \E h \in Handles : DropCommittedScene(h)

SpecCallbacks == Init /\ [][NextCallbacks]_vars

\* Attaching several geometries to a scene and querying the committed scene.
\* The device and the geometries are created without a failure; attaches,
\* commits, releases and queries may fail.
NextAttach ==
    \/ \E after \in AfterStr, e \in ErrCodes :
          devices = {} /\ DeviceTryNew("none", after, e)
    \/ \E d \in Handles : DeviceError(d)
    \/ \E d \in Handles : SphereTryNew(d, NONE, NONE, NONE)
    \/ \E g \in Handles, e \in Codes : DropSphereGeometry(g, e)
    \/ \E d \in Handles :
          /\ scenes = {}
          /\ SceneTryNew(d, DefaultBuildQuality, DefaultFlags, NONE, NONE, NONE, NONE)
    \/ \E s \in scenes, g \in Handles, id \in GeomIds, e \in Codes :
          AttachGeometry(s, g, id, e)
    \/ \E s \in scenes, e \in Codes : Commit(s, e)
    \/ \E s \in scenes, e \in Codes : DropScene(s, e)
    \/ \E h \in Handles, geomID \in GeomIds \cup {RTC_INVALID_GEOMETRY_ID}, e \in Codes :
          Intersect1(h, geomID, e)
    \/ \E h \in Handles : DropCommittedScene(h)

SpecAttach == Init /\ [][NextAttach]_vars

\* Queries of a shared CommittedScene and registrations on a shared Device by
\* several threads.  The main thread builds the device, the geometry and the
\* scene, which succeeds, and drops the geometry; attach, commit, the release
\* of the geometry and the queries may fail.
NextThreads ==
    \/ \E after \in AfterStr, e \in ErrCodes :
          pc[0] = "idle" /\ devices = {} /\ DeviceTryNew("none", after, e)
    \/ \E d \in Handles :
          pc[0] = "idle" /\ spheres = {} /\ SphereTryNew(d, NONE, NONE, NONE)
    \/ \E g \in Handles, e \in Codes : pc[0] = "idle" /\ DropSphereGeometry(g, e)
    \/ \E d \in Handles :
          /\ pc[0] = "idle" /\ scenes = {}
          /\ SceneTryNew(d, DefaultBuildQuality, DefaultFlags, NONE, NONE, NONE, NONE)
    \/ \E s \in scenes, g \in Handles, id \in GeomIds, e \in Codes :
          pc[0] = "idle" /\ attached = {} /\ AttachGeometry(s, g, id, e)
    \/ \E s \in scenes, e \in Codes :
          pc[0] = "idle" /\ cscenes[s.handle] = 0 /\ Commit(s, e)
    \/ \E t \in Threads, d \in Handles : ThreadRegisterErrorCallback(t, d)
    \/ \E t \in Threads, g \in scopes : ThreadDropErrorCallBackScope(t, g)
    \/ \E t \in Threads, op \in Queries, h \in Handles,
          ret \in GeomIds \cup {RTC_INVALID_GEOMETRY_ID}, e \in Codes :
          QueryCall(t, op, h, ret, e)
    \/ \E t \in Threads : TrampolineReturn(t)
    \/ \E t \in Threads : QueryPoll(t)

SpecThreads == Init /\ [][NextThreads]_vars

\* Registrations on a shared Device while the queries of other threads run its
\* error callback.  The device, the scene and the commit succeed.
NextRace ==
    \/ \E after \in AfterStr, e \in ErrCodes :
          pc[0] = "idle" /\ devices = {} /\ DeviceTryNew("none", after, e)
    \/ \E d \in Handles :
          /\ pc[0] = "idle" /\ scenes = {}
          /\ SceneTryNew(d, DefaultBuildQuality, DefaultFlags, NONE, NONE, NONE, NONE)
    \/ \E s \in scenes :
          pc[0] = "idle" /\ cscenes[s.handle] = 0 /\ Commit(s, NONE)
    \/ \E t \in Threads, d \in Handles : ThreadRegisterErrorCallback(t, d)
    \/ \E t \in Threads, g \in scopes : ThreadDropErrorCallBackScope(t, g)
    \/ \E t \in Threads, h \in Handles, e \in Codes :
          QueryCall(t, "intersect_1", h, RTC_INVALID_GEOMETRY_ID, e)
    \/ \E t \in Threads : TrampolineReturn(t)
    \/ \E t \in Threads : QueryPoll(t)

SpecRace == Init /\ [][NextRace]_vars

\* The MXCSR guard and the code around it.
NextMxcsr ==
    \/ MxcsrSetup
    \/ MxcsrDrop
    \/ \E v \in MxcsrValues : MxcsrWrite(v)

SpecMxcsr == Init /\ [][NextMxcsr]_vars


\* ------------------------------------------------------------------ claims

\* The number of live Device, SphereGeometry, Scene and CommittedScene objects
\* whose handle field is h.
Holders(h) ==
    (IF h \in devices THEN 1 ELSE 0) + (IF h \in spheres THEN 1 ELSE 0)
    + Cardinality({s \in scenes : s.handle = h}) + cscenes[h]

\* C1: intersect_1 and bounds are never executed on a scene handle that was
\* already passed to rtcReleaseScene.
C1_NoQueryAfterRelease ==
    last.op \in {"intersect_1", "bounds"} => ~last.calls[1].rel

\* C2: no native handle is held by two live wrapper objects; in particular a
\* Scene and the CommittedScene returned by its commit, or two CommittedScene
\* returned by two commits, do not hold the same handle.
C2_ExclusiveHandles == \A h \in Handles : Holders(h) <= 1

\* C3: whenever a callback slot holds a context pointer, the closure it points
\* to has not been dropped.
C3_RegisteredClosureAlive ==
    \A h \in Handles :
        /\ errorFunction[h] # 0 => errorFunction[h] \notin droppedClosures
        /\ memoryMonitorFunction[h] # 0 => memoryMonitorFunction[h] \notin droppedClosures
        /\ progressMonitorFunction[h] # 0 => progressMonitorFunction[h] \notin droppedClosures

\* C4: an operation that returns Err with a device error code reports a code
\* recorded by one of its own native calls, never one that was already pending
\* when the operation began.
C4_NoMisattribution ==
    (last.result = "Err" /\ last.code # NONE) => ~last.stale

Mutators == {"set_build_quality", "set_flags", "attach_geometry", "commit",
             "register_scene_progress_monitor_callback"}

\* C5: once commit has returned Ok for a scene handle, no configuration,
\* attach, progress registration or further commit is applied to that handle.
C5_CommittedIsTerminal ==
    [][last'.op \in Mutators => last'.h \notin committedOk]_vars

\* C6: after a device handle was released, no SphereGeometry, Scene or
\* CommittedScene created from that device is alive.
C6_DeviceOutlivesDerived ==
    \A h \in Handles :
        (kind[h] \in {"scene", "geometry"} /\ parent[h] \in released) => Holders(h) = 0

\* C7: the drop of a scope guard leaves its callback slot empty, never a closure
\* of an earlier registration; no slot holds, and no native call invokes, a
\* closure whose guard has been dropped.
C7_DroppedScopeDeregisters ==
    /\ last.op = "drop ErrorCallBackScope" => errorFunction[last.h] = 0
    /\ last.op = "drop MemoryMonitorCallBackScope" => memoryMonitorFunction[last.h] = 0
    /\ last.op = "drop SceneProgressCallbackScope" => progressMonitorFunction[last.h] = 0
    /\ \A h \in Handles :
          /\ errorFunction[h] \notin scopeDropped
          /\ memoryMonitorFunction[h] \notin scopeDropped
          /\ progressMonitorFunction[h] \notin scopeDropped
    /\ last.invoked \cap scopeDropped = {}

\* A commit runs the progress monitor of a later registration after the guard
\* of an earlier registration on the same scene was dropped.
C7_Witness ==
    /\ last.op = "commit"
    /\ progressMonitorFunction[last.h] # 0
    /\ progressMonitorFunction[last.h] \in last.invoked
    /\ \E c \in scopeDropped : c < progressMonitorFunction[last.h]

\* C8: after remove_error_callback the device's error callback slot is empty.
C8_RemoveErrorCallbackEmptiesSlot ==
    last.op = "remove_error_callback" => errorFunction[last.h] = 0

\* C9: intersect_1 returns Err exactly when the device error state polled right
\* after rtcIntersect1 is not clear, whatever the geomID; otherwise Ok(None)
\* exactly when the geomID is the sentinel, and Ok(Some) of the native record.
C9_Intersect1Classifies ==
    last.op = "intersect_1" =>
        LET native == last.calls[1]
            poll   == last.calls[2]
        IN /\ Len(last.calls) = 2
           /\ native.fn = "rtcIntersect1"
           /\ poll.fn = "rtcGetDeviceError"
           /\ last.result \in {"Err", "OkNone", "OkSome"}
           /\ last.result = "Err" <=> poll.code # NONE
           /\ last.result = "Err" => last.code = poll.code
           /\ last.result = "OkNone" <=>
                 (poll.code = NONE /\ native.ret = RTC_INVALID_GEOMETRY_ID)
           /\ last.result = "OkSome" => last.value = native.ret

\* intersect_1 returned Err although rtcIntersect1 left a valid geomID.
C9_Witness ==
    /\ last.op = "intersect_1"
    /\ last.result = "Err"
    /\ last.calls[1].ret # RTC_INVALID_GEOMETRY_ID

SphereSteps == {"rtcNewGeometry", "rtcSetNewGeometryBuffer", "rtcCommitGeometry"}

\* The device's error state is not clear after the i-th entry of last.calls.
RECURSIVE NotClearAfter(_)
NotClearAfter(i) ==
    IF i = 0 THEN last.stale
    ELSE IF last.calls[i].fn = "rtcGetDeviceError" THEN FALSE
    ELSE NotClearAfter(i - 1) \/ last.calls[i].code # NONE

\* C10: SphereGeometry::try_new makes its three native calls in order; when a
\* call returns null or the device reports an error after it, try_new returns
\* Err and makes no further native call or buffer write before the check; it
\* returns Ok only if all three calls returned non-null and left the error
\* state clear.
C10_SphereTryNewChecksEachStep ==
    last.op = "SphereGeometry::try_new" =>
        LET calls == last.calls
            steps == {i \in 1..Len(calls) : calls[i].fn \in SphereSteps}
            Null(i) == calls[i].fn # "rtcCommitGeometry" /\ calls[i].ret = NULL
        IN /\ \A i \in steps : (Null(i) \/ NotClearAfter(i)) =>
                 /\ last.result = "Err"
                 /\ \A j \in (i + 1)..Len(calls) : calls[j].fn = "rtcGetDeviceError"
           /\ last.result = "Ok" =>
                 /\ {calls[i].fn : i \in steps} = SphereSteps
                 /\ \A i \in steps : ~Null(i) /\ ~NotClearAfter(i)

\* The positions in `calls` of the native calls named fn.
CallsOf(calls, fn) == {i \in 1..Len(calls) : calls[i].fn = fn}

\* C11: Scene::try_new calls rtcSetSceneBuildQuality iff the build quality is
\* not the default and rtcSetSceneFlags iff the flags are not the default,
\* quality before flags, each at most once and each followed at once by a poll
\* of the device error; it returns Err exactly when rtcNewScene returned null
\* or one of these polls reported an error, and after a null handle or a
\* reported error it applies nothing more.
C11_TryNewAppliesNonDefaultOptions ==
    [][\A d \in Handles, quality \in BuildQualities, flags \in SceneFlags,
          e0, eq, ef, er \in Codes :
          SceneTryNew(d, quality, flags, e0, eq, ef, er) =>
             LET calls == last'.calls
                 Q     == CallsOf(calls, "rtcSetSceneBuildQuality")
                 F     == CallsOf(calls, "rtcSetSceneFlags")
                 Polled(i) == /\ i < Len(calls)
                              /\ calls[i + 1].fn = "rtcGetDeviceError"
                 Failed(i) == Polled(i) /\ calls[i + 1].code # NONE
                 null  == calls[1].ret = NULL
             IN /\ calls[1].fn = "rtcNewScene"
                /\ Cardinality(Q) <= 1 /\ Cardinality(F) <= 1
                /\ \A i \in Q \cup F : Polled(i)
                /\ \A i \in Q, j \in F : i < j
                /\ Q # {} <=> (~null /\ quality # DefaultBuildQuality)
                /\ F # {} <=> (/\ ~null /\ flags # DefaultFlags
                               /\ \A i \in Q : ~Failed(i))
                /\ last'.result = "Err" <=> (null \/ \E i \in Q \cup F : Failed(i))
                /\ last'.result \in {"Ok", "Err"}]_vars

\* Scene::try_new was given a build quality and flags that both differ from
\* the default, the application of the quality reported an error, and try_new
\* returned Err without a call of rtcSetSceneFlags.
C11_Witness ==
    /\ last.op = "Scene::try_new"
    /\ last.result = "Err"
    /\ \E i \in CallsOf(last.calls, "rtcSetSceneBuildQuality") : last.calls[i].code # NONE
    /\ CallsOf(last.calls, "rtcSetSceneFlags") = {}

\* C12: Device::try_new returns Err exactly when rtcNewDevice returned null,
\* with the error polled from the null device, and otherwise Ok with a Device
\* that holds the returned handle; it succeeds without a configuration and
\* with a valid configuration string, and fails with an invalid one.
C12_DeviceTryNewOutcome ==
    [][\A config \in Configs, after \in AfterStr, e \in ErrCodes :
          DeviceTryNew(config, after, e) =>
             LET calls == last'.calls IN
             /\ calls[1].fn = "rtcNewDevice"
             /\ last'.result = "Err" <=> calls[1].ret = NULL
             /\ last'.result = "Err" =>
                   /\ Len(calls) = 2
                   /\ calls[2].fn = "rtcGetDeviceError" /\ calls[2].h = NULL
                   /\ last'.code = calls[2].code
                   /\ devices' = devices
             /\ last'.result # "Err" =>
                   /\ last'.result = "Ok"
                   /\ last'.value = calls[1].ret
                   /\ devices' = devices \cup {calls[1].ret}
             /\ config \in {"none", "valid"} => last'.result = "Ok"
             /\ config = "invalid" => last'.result = "Err"]_vars

\* C13: attach_geometry returns Ok with the identifier rtcAttachGeometry
\* returned exactly when the device error polled after the call is clear, and
\* Err otherwise; distinct geometries attached to one scene were given distinct
\* identifiers; the geomID of a hit returned by intersect_1 is an identifier
\* that an attach_geometry on that scene returned.
C13_AttachIdRoundTrip ==
    /\ last.op = "attach_geometry" =>
          /\ last.result \in {"Ok", "Err"}
          /\ last.result = "Ok" <=> last.calls[2].code = NONE
          /\ last.result = "Ok" => last.value = last.calls[1].ret
    /\ \A a, b \in attached :
          (a.scene = b.scene /\ a.returned /\ b.returned /\ a.geom # b.geom) => a.id # b.id
    /\ (last.op = "intersect_1" /\ last.result = "OkSome") =>
          \E a \in attached : a.scene = last.h /\ a.id = last.value /\ a.returned

ReleaseCalls == {"rtcReleaseDevice", "rtcReleaseScene", "rtcReleaseGeometry"}

\* C15: no handle is passed to a release call a second time; a try_new of a
\* Scene or a SphereGeometry that returns Err after the native library gave it
\* a handle has released that handle; once no wrapper object is alive, every
\* handle the native library handed out has been released.
C15_ReleasedExactlyOnce ==
    /\ \A i \in 1..Len(last.calls) :
          last.calls[i].fn \in ReleaseCalls => ~last.calls[i].rel
    /\ (/\ last.op \in {"Scene::try_new", "SphereGeometry::try_new"}
        /\ last.result = "Err"
        /\ last.h # NULL) => last.h \in released
    /\ (\A h \in Handles : Holders(h) = 0) =>
          \A h \in Handles : kind[h] # "free" => h \in released

GuardDrops == {"drop ErrorCallBackScope", "drop MemoryMonitorCallBackScope",
               "drop SceneProgressCallbackScope"}
ErrorSlotOps == {"register_error_callback", "remove_error_callback",
                 "drop ErrorCallBackScope"}
MemorySlotOps == {"register_device_memory_monitor_callback",
                  "remove_memory_monitor_callback", "drop MemoryMonitorCallBackScope"}
ProgressSlotOps == {"register_scene_progress_monitor_callback",
                    "remove_scene_progress_monitor_callback",
                    "drop SceneProgressCallbackScope"}
Registrations == {"register_error_callback", "register_device_memory_monitor_callback",
                  "register_scene_progress_monitor_callback"}

\* The registration operation that fills the slot guard g belongs to.
RegistrationOf(g) ==
    CASE g.kind = "error" -> "register_error_callback"
      [] g.kind = "memory" -> "register_device_memory_monitor_callback"
      [] g.kind = "progress" -> "register_scene_progress_monitor_callback"

\* The closure of guard g is the one in its slot, the slots being ef, mf, pf.
Installed(g, ef, mf, pf) ==
    CASE g.kind = "error" -> ef[g.handle] = g.closure
      [] g.kind = "memory" -> mf[g.handle] = g.closure
      [] g.kind = "progress" -> pf[g.handle] = g.closure

\* C16: over registrations and guard drops, a callback whose guard is alive
\* stays installed unless the step is a registration for its own slot; in
\* particular the drop of the guard of a replaced callback leaves the
\* callback that replaced it installed.
C16_InstalledWhileGuardAlive ==
    [][last'.op \in GuardDrops \cup Registrations =>
          \A g \in scopes \cap scopes' :
             (/\ Installed(g, errorFunction, memoryMonitorFunction, progressMonitorFunction)
              /\ ~(last'.op = RegistrationOf(g) /\ last'.h = g.handle))
             => Installed(g, errorFunction', memoryMonitorFunction',
                          progressMonitorFunction')]_vars

\* C17: an operation on one kind of callback leaves the slots of the other
\* two kinds as they were.
C17_SlotsIndependent ==
    [][/\ last'.op \in ErrorSlotOps =>
             /\ memoryMonitorFunction' = memoryMonitorFunction
             /\ progressMonitorFunction' = progressMonitorFunction
       /\ last'.op \in MemorySlotOps =>
             /\ errorFunction' = errorFunction
             /\ progressMonitorFunction' = progressMonitorFunction
       /\ last'.op \in ProgressSlotOps =>
             /\ errorFunction' = errorFunction
             /\ memoryMonitorFunction' = memoryMonitorFunction]_vars

\* C18: the deregistration call made by the drop of a scope guard is never
\* made on a handle that was already released.
C18_GuardDroppedBeforeRelease ==
    last.op \in GuardDrops => ~last.calls[1].rel

\* C14: a query of a shared CommittedScene returns, under every interleaving
\* with the queries of other threads, the outcome of its own native call: Err
\* with the error that call recorded exactly when it recorded one, and
\* otherwise the hit or the bounds that call produced.
C14_ConcurrentQueryOwnOutcome ==
    last.op \in Queries =>
        LET native == last.calls[1] IN
        /\ last.result = "Err" <=> native.code # NONE
        /\ last.result = "Err" => last.code = native.code
        /\ (last.op = "intersect_1" /\ last.result # "Err") =>
              /\ last.result = "OkNone" <=> native.ret = RTC_INVALID_GEOMETRY_ID
              /\ last.result = "OkSome" => last.value = native.ret
        /\ (last.op = "bounds" /\ last.result # "Err") =>
              /\ last.result = "Ok"
              /\ last.value = native.ret

\* C19: while the native call of one thread is inside the trampoline of the
\* device's error callback, register_error_callback on that device can be
\* executed by any other thread that is not itself in a call.
C19_NoLockExcludesRegistration ==
    \A t, u \in Threads :
        (/\ t # u
         /\ pc[t] = "trampoline"
         /\ pc[u] = "idle"
         /\ nextClosure <= MaxClosures) =>
        ENABLED ThreadRegisterErrorCallback(u, parent[inflight[t].h])

\* A thread is inside the trampoline, invoking a closure that a registration
\* made meanwhile by another thread has replaced in the slot.
C19_Witness ==
    \E t \in Threads :
        /\ pc[t] = "trampoline"
        /\ last.op = "register_error_callback"
        /\ last.h = parent[inflight[t].h]
        /\ errorFunction[last.h] # inflight[t].running

\* Bit i of x.
Bit(x, i) == (x \div (2 ^ i)) % 2

\* C20: after Mxcsr::setup the register has bits 6 and 15 set and every other
\* bit as it was, and the guard's old is the value the register had; after the
\* drop of the guard the register has that value again, whatever was loaded
\* in between.
C20_MxcsrSetupDropRestores ==
    /\ mxcsr.op = "setup" =>
          /\ mxcsr.old = <<mxcsr.v>>
          /\ mxcsr.reg \in 0..(2 ^ MxcsrWidth - 1)
          /\ \A i \in 0..(MxcsrWidth - 1) :
                Bit(mxcsr.reg, i) = IF i \in {6, 15} THEN 1 ELSE Bit(mxcsr.v, i)
    /\ mxcsr.op = "drop" => mxcsr.reg = mxcsr.v

\* A guard was dropped whose setup had set both bits, after the register was
\* loaded with something else while the guard lived.
C20_Witness ==
    /\ mxcsr.op = "drop"
    /\ mxcsr.between
    /\ Bit(mxcsr.v, 6) = 0 /\ Bit(mxcsr.v, 15) = 0

=============================================================================
